---- MODULE Spec2Model ----
(***************************************************************************)
(* A model of the data-insight-generator: DataAnalyser (src/src/analyser.py)*)
(* and ReportGenerator (src/src/report_generator.py), driven the way        *)
(* app.py drives them: a table is loaded, an analyser is built from it, its *)
(* queries are called in any order, and reports are written to disk.        *)
(*                                                                          *)
(* Numbers: cell values are integers.  A statistic that pandas returns as a *)
(* float is kept exact as a scaled integer or a fraction <<num, den>>, and  *)
(* NaN is the record NaN.                                                   *)
(***************************************************************************)
EXTENDS Integers, Sequences, FiniteSets, TLC

VARIABLES
    caller_df,      \* the table the caller holds (app.py:15); <<>> until one is loaded
    analyser,       \* the DataAnalyser instance [built, df, numeric_cols, ...]
    generator,      \* the ReportGenerator instance [built, df]; df is analyser.df
    returned,       \* per operation, the value its latest call returned to the caller
    dirs,           \* the directories that exist on disk (other than the cwd)
    files,          \* the regular files on disk: path -> content
    now,            \* the wall clock, in ticks
    requested,      \* the output_path argument of the latest generate_html_report call
    written,        \* the completed generate_html_report calls, in order:
                    \*   [path, content, default, analyser]
    tie_order       \* how this build's sort orders equal keys (numpy 'quicksort')

vars == <<caller_df, analyser, generator, returned, dirs, files, now, requested, written,
          tie_order>>

(***************************************************************************)
(* Bounds of the model.                                                     *)
(***************************************************************************)
MaxCols == 2        \* columns of an enumerated table
MaxRows == 2        \* rows of an enumerated table
MaxSeriesLen == 5   \* rows of an enumerated single-column table
MaxNumeric == 4     \* numeric columns of a grid table
MaxClock == 2       \* ticks the clock can advance
MaxReports == 2     \* generate_html_report calls in one behaviour

(***************************************************************************)
(* Program constants.                                                       *)
(***************************************************************************)
TopN == 10              \* value_counts().head(10)
TopShown == 5           \* list(summary['top_values'].items())[:5]
MaxPlotsPerRow == 3     \* n_cols = min(3, len(numeric_cols))
TicksPerSecond == 2     \* strftime("%Y%m%d_%H%M%S") has second resolution


\* Python's None, and a present optional value
PyNone == [present |-> FALSE, v |-> <<>>]
Some(x) == [present |-> TRUE, v |-> x]

(***************************************************************************)
(* Tables.  A table is a sequence of columns [name, dtype, values]; a cell  *)
(* is [na, v].  Object cells hold label codes (1 = 'A', 2 = 'B', ...).      *)
(***************************************************************************)
NA == [na |-> TRUE, v |-> 0]
Val(x) == [na |-> FALSE, v |-> x]
Cells(xs) == [i \in 1..Len(xs) |-> IF xs[i] < 0 THEN NA ELSE Val(xs[i])]
Col(name, dtype, xs) == [name |-> name, dtype |-> dtype, values |-> Cells(xs)]

NCols(df) == Len(df)
NRows(df) == IF Len(df) = 0 THEN 0 ELSE Len(df[1].values)
Columns(df) == [i \in 1..Len(df) |-> df[i].name]
Range(s) == {s[i] : i \in 1..Len(s)}
Column(df, name) == (CHOOSE i \in 1..Len(df) : df[i].name = name)
Series(df, name) == df[Column(df, name)].values
Row(df, i) == [j \in 1..Len(df) |-> df[j].values[i]]
Min(a, b) == IF a < b THEN a ELSE b

(***************************************************************************)
(* Numbers returned to the caller.  kind "num" is the fraction num/den;     *)
(* kind "nan" is NaN; kind "error" marks a Python exception raised by the   *)
(* arithmetic instead of a value.                                           *)
(***************************************************************************)
Rat(n, d) == [kind |-> "num", num |-> n, den |-> d]
NaN == [kind |-> "nan", num |-> 0, den |-> 1]
ArithError == [kind |-> "error", num |-> 0, den |-> 1]

Ok(v) == [status |-> "ok", exc |-> "", value |-> v]
Raised(e) == [status |-> "raised", exc |-> e, value |-> PyNone]
NotCalled == [status |-> "not called", exc |-> "", value |-> PyNone]

(***************************************************************************)
(* pandas primitives used by the analyser.                                  *)
(***************************************************************************)
\* Series.dropna(): the non-null values, in order
DropNa(values) ==
    LET kept == SelectSeq(values, LAMBDA c : ~c.na)
    IN  [i \in 1..Len(kept) |-> kept[i].v]

RECURSIVE SumSeq(_)
SumSeq(s) == IF Len(s) = 0 THEN 0 ELSE s[1] + SumSeq(Tail(s))

\* Series.isnull().sum()
RECURSIVE IsNullSum(_)
IsNullSum(values) ==
    IF Len(values) = 0 THEN 0
    ELSE (IF values[1].na THEN 1 ELSE 0) + IsNullSum(Tail(values))

\* DataFrame.duplicated().sum(): rows already seen earlier (keep='first');
\* null cells compare equal to null cells
RECURSIVE DuplicatedFrom(_, _, _)
DuplicatedFrom(df, i, seen) ==
    IF i > NRows(df) THEN 0
    ELSE IF Row(df, i) \in seen
         THEN 1 + DuplicatedFrom(df, i + 1, seen)
         ELSE DuplicatedFrom(df, i + 1, seen \cup {Row(df, i)})

\* duplicated(keep=False): every row that has a twin, the first one included
DuplicatedSumKeepFalse(df) ==
    Cardinality({i \in 1..NRows(df) : \E j \in 1..NRows(df) : j # i /\ Row(df, j) = Row(df, i)})

DuplicatedSum(df) == DuplicatedFrom(df, 1, {})

\* ascending sort of a sequence of integers
RECURSIVE Insert(_, _)
Insert(s, x) ==
    IF Len(s) = 0 THEN <<x>>
    ELSE IF x <= s[1] THEN <<x>> \o s
         ELSE <<s[1]>> \o Insert(Tail(s), x)

RECURSIVE Sort(_)
Sort(s) == IF Len(s) = 0 THEN <<>> ELSE Insert(Sort(Tail(s)), s[1])

\* Series.quantile(j/4), linear interpolation over the non-null values,
\* as a fraction over 4; NaN when there is no non-null value
Quantile(values, j) ==
    LET s == Sort(DropNa(values))
        n == Len(s)
        h == (n - 1) * j
        k == h \div 4
        r == h % 4
    IN  IF n = 0 THEN NaN
        ELSE IF r = 0 THEN Rat(4 * s[k + 1], 4)
             ELSE Rat(4 * s[k + 1] + r * (s[k + 2] - s[k + 1]), 4)

\* numpy int64 / int: x / 0 is nan (or inf), never ZeroDivisionError
PercentageDivZeroRaises(count, n) ==
    IF n = 0 THEN ArithError ELSE Rat(100 * count, n)

Percentage(count, n) ==
    IF n = 0 THEN NaN ELSE Rat(100 * count, n)

\* DataFrame.select_dtypes(include=...).columns.tolist()
SelectDtypes(df, include) ==
    LET sel == SelectSeq(df, LAMBDA c : c.dtype \in include)
    IN  [i \in 1..Len(sel) |-> sel[i].name]

NpNumber == {"int64", "float64"}

(***************************************************************************)
(* DataAnalyser (src/src/analyser.py).                                      *)
(***************************************************************************)
NoAnalyser ==
    [built |-> FALSE, df |-> <<>>, numeric_cols |-> <<>>,
     categorical_cols |-> <<>>, datetime_cols |-> <<>>]

\* __init__: self.df = df.copy() and the three select_dtypes lists
NewAnalyser(df) ==
    [built |-> TRUE,
     df |-> df,
     numeric_cols |-> SelectDtypes(df, NpNumber),
     categorical_cols |-> SelectDtypes(df, {"object"}),
     datetime_cols |-> SelectDtypes(df, {"datetime64"})]

\* basic_info (memory_usage, a byte count, is left out of the record)
BasicInfo(df) ==
    [shape |-> <<NRows(df), NCols(df)>>,
     columns |-> Columns(df),
     dtypes |-> [c \in Range(Columns(df)) |-> df[Column(df, c)].dtype],
     missing_values |-> [c \in Range(Columns(df)) |-> IsNullSum(Series(df, c))],
     duplicate_rows |-> DuplicatedSum(df)]

\* DataFrame.describe() of one column, plus Series.skew() and Series.kurtosis().
\* With n the count and S the sum of the non-null values, dev[i] = n*x[i] - S
\* and m2 the sum of its squares: the variance is m2 / (n*n*(n-1)), and std is
\* kept as that fraction under the root.  Of skewness and kurtosis the model
\* keeps what decides whether they are NaN, zero or a value: the count and m2.
Describe(values) ==
    LET x == DropNa(values)
        n == Len(x)
        S == SumSeq(x)
        s == Sort(x)
        dev == [i \in 1..n |-> n * x[i] - S]
        m2 == SumSeq([i \in 1..n |-> dev[i] * dev[i]])
    IN  [count |-> n,
         mean |-> IF n = 0 THEN NaN ELSE Rat(S, n),
         std |-> IF n < 2 THEN NaN
                 ELSE [kind |-> "sqrt", num |-> m2, den |-> n * n * (n - 1)],
         min |-> IF n = 0 THEN NaN ELSE Rat(s[1], 1),
         q25 |-> Quantile(values, 1),
         q50 |-> Quantile(values, 2),
         q75 |-> Quantile(values, 3),
         max |-> IF n = 0 THEN NaN ELSE Rat(s[n], 1),
         skewness |-> IF n < 3 THEN NaN
                      ELSE IF m2 = 0 THEN Rat(0, 1)
                      ELSE [kind |-> "skew", num |-> n, den |-> m2],
         kurtosis |-> IF n < 4 THEN NaN
                      ELSE IF m2 = 0 THEN Rat(0, 1)
                      ELSE [kind |-> "kurt", num |-> n, den |-> m2]]

\* numerical_summary
NumericalSummary(a) ==
    IF a.numeric_cols = <<>> THEN PyNone
    ELSE Some([columns |-> a.numeric_cols,
               stats |-> [c \in Range(a.numeric_cols) |-> Describe(Series(a.df, c))]])

\* the distinct values of a sequence, in order of first appearance
RECURSIVE Unique(_)
Unique(x) ==
    IF Len(x) = 0 THEN <<>>
    ELSE LET u == Unique(SubSeq(x, 1, Len(x) - 1))
         IN  IF x[Len(x)] \in Range(u) THEN u ELSE Append(u, x[Len(x)])

Occurrences(x, v) == Cardinality({i \in 1..Len(x) : x[i] = v})

\* Series.sort_values(ascending=False) of the counts.  The default kind,
\* numpy 'quicksort', promises no order among equal counts: "first_seen" keeps
\* them in input order, "last_seen" is a build that leaves them reversed.
RECURSIVE InsertByCount(_, _, _)
InsertByCount(s, e, ties) ==
    IF Len(s) = 0 THEN <<e>>
    ELSE IF e.count > s[1].count \/ (e.count = s[1].count /\ ties = "last_seen")
         THEN <<e>> \o s
         ELSE <<s[1]>> \o InsertByCount(Tail(s), e, ties)

RECURSIVE SortByCount(_, _)
SortByCount(s, ties) ==
    IF Len(s) = 0 THEN <<>>
    ELSE InsertByCount(SortByCount(SubSeq(s, 1, Len(s) - 1), ties), s[Len(s)], ties)

\* value_counts(sort=False): the counts in order of first appearance
ValueCountsUnsorted(values, ties) ==
    LET x == DropNa(values)
        u == Unique(x)
    IN  [i \in 1..Len(u) |-> [value |-> u[i], count |-> Occurrences(x, u[i])]]

\* Series.value_counts(): non-null values with their counts, most frequent first
ValueCounts(values, ties) ==
    LET x == DropNa(values)
        u == Unique(x)
    IN  SortByCount([i \in 1..Len(u) |-> [value |-> u[i], count |-> Occurrences(x, u[i])]],
                    ties)

\* .head(n)
Head_n(s, n) == SubSeq(s, 1, Min(n, Len(s)))

\* Series.nunique()
NUnique(values) == Cardinality(Range(DropNa(values)))

\* categorical_summary; the dict is the sequence of its items in insertion order
CategoricalSummary(a, ties) ==
    IF a.categorical_cols = <<>> THEN PyNone
    ELSE Some([i \in 1..Len(a.categorical_cols) |->
            LET values == Series(a.df, a.categorical_cols[i])
            IN  [col |-> a.categorical_cols[i],
                 unique_count |-> NUnique(values),
                 top_values |-> Head_n(ValueCounts(values, ties), TopN),
                 missing_percentage |-> Percentage(IsNullSum(values), NRows(a.df))]])

\* ((s < lower_bound) | (s > upper_bound)).sum(); the bounds are given times 8,
\* a comparison with NaN is False
RECURSIVE OutsideSum(_, _, _)
OutsideSum(values, lower8, upper8) ==
    IF Len(values) = 0 THEN 0
    ELSE (IF ~values[1].na /\ (8 * values[1].v < lower8 \/ 8 * values[1].v > upper8)
          THEN 1 ELSE 0)
         + OutsideSum(Tail(values), lower8, upper8)

OutlierCountInclusive(values) ==
    LET Q1 == Quantile(values, 1)
        Q3 == Quantile(values, 3)
        IQR == Q3.num - Q1.num
    IN  IF Q1.kind = "nan" THEN 0
        ELSE OutsideSum(values, 2 * Q1.num - 3 * IQR + 1, 2 * Q3.num + 3 * IQR - 1)

\* the outlier count of one column: Q1, Q3 over 4, IQR = Q3 - Q1 over 4,
\* lower = Q1 - 1.5*IQR and upper = Q3 + 1.5*IQR over 8
OutlierCount(values) ==
    LET Q1 == Quantile(values, 1)
        Q3 == Quantile(values, 3)
        IQR == Q3.num - Q1.num
    IN  IF Q1.kind = "nan" THEN 0
        ELSE OutsideSum(values, 2 * Q1.num - 3 * IQR, 2 * Q3.num + 3 * IQR)

\* detect_outliers; the dict is the sequence of its items in insertion order
DetectOutliers(a) ==
    [i \in 1..Len(a.numeric_cols) |->
        LET values == Series(a.df, a.numeric_cols[i])
        IN  [col |-> a.numeric_cols[i],
             count |-> OutlierCount(values),
             percentage |-> Percentage(OutlierCount(values), NRows(a.df))]]

(***************************************************************************)
(* ReportGenerator (src/src/report_generator.py).                           *)
(***************************************************************************)
NoGenerator == [built |-> FALSE, analyser |-> NoAnalyser, df |-> <<>>]

\* __init__: keeps the analyser and an alias of its table
NewGenerator(a) == [built |-> TRUE, analyser |-> a, df |-> a.df]

\* _fig_to_base64: the PNG of the figure, base64-encoded, as text
fig_to_base64(fig) == [encoding |-> "base64", format |-> "png", figure |-> fig]

\* matplotlib objects: one Axes, or a container (Python list, numpy array) of Axes
Axes(k) == [type |-> "Axes", items |-> <<>>, k |-> k]
PyList(items) == [type |-> "list", items |-> items, k |-> 0]
NdArray(items) == [type |-> "ndarray", items |-> items, k |-> 0]

\* plt.subplots(n_rows, n_cols) with squeeze=True: a single Axes for a 1x1
\* grid, else an array of n_rows * n_cols Axes
Subplots(n_rows, n_cols) ==
    IF n_rows = 1 /\ n_cols = 1 THEN Axes(1)
    ELSE NdArray([k \in 1..(n_rows * n_cols) |-> k])

\* axes[i] (0-based i) of a container
Index(axes, i) == Axes(axes.items[i + 1])

\* lines 41-44: axes = [axes] for a 1x1 grid, axes itself for one row,
\* axes.flatten() otherwise
NormalizedAxes(n_rows, n_cols) ==
    LET axes == Subplots(n_rows, n_cols)
    IN  IF n_rows = 1
        THEN (IF n_cols = 1 THEN PyList(<<axes>>) ELSE axes)
        ELSE NdArray(axes.items)

\* line 46: ax = axes[i] if len(numeric_cols) > 1 else axes
AxFor(axes, i, n) == IF n > 1 THEN Index(axes, i) ELSE axes

\* create_visualizations.  Series.hist(ax=ax) and ax.set_title need ax to be
\* an Axes: anything else raises AttributeError.
CreateVisualizations(g) ==
    LET cols == g.analyser.numeric_cols
        n == Len(cols)
        correlation ==
            IF n > 1
            THEN Some(fig_to_base64([kind |-> "heatmap", title |-> "Correlation Matrix",
                                     labels |-> cols]))
            ELSE PyNone
        n_cols == Min(MaxPlotsPerRow, n)
        n_rows == (n + n_cols - 1) \div n_cols
        axes == NormalizedAxes(n_rows, n_cols)
        ax == [i \in 1..n |-> AxFor(axes, i - 1, n)]
        hidden == {axes.items[j + 1] : j \in n..(Len(axes.items) - 1)}
    IN  IF n = 0 THEN Ok([correlation |-> correlation, distributions |-> PyNone])
        ELSE IF \E i \in 1..n : ax[i].type # "Axes" THEN Raised("AttributeError")
        ELSE Ok([correlation |-> correlation,
                 distributions |->
                    Some(fig_to_base64(
                        [kind |-> "histograms", n_rows |-> n_rows, n_cols |-> n_cols,
                         plotted |-> [i \in 1..n |-> [col |-> cols[i], ax |-> ax[i].k]],
                         hidden |-> hidden]))])

(***************************************************************************)
(* Paths and the file system.  A path is the sequence of its components;    *)
(* the current directory is <<>> and always exists.                         *)
(***************************************************************************)
Part(name) == [name |-> name, stamp |-> 0]
Stamped(name, t) == [name |-> name, stamp |-> t]

\* datetime.now().strftime("%Y%m%d_%H%M%S"): the clock cut to whole seconds
Timestamp(t) == t \div TicksPerSecond

\* "outputs/eda_report_{timestamp}.html"
DefaultPath(t) == <<Part("outputs"), Stamped("eda_report_.html", Timestamp(t))>>

\* os.path.dirname
Dirname(path) == SubSeq(path, 1, Len(path) - 1)

Prefixes(path) == {SubSeq(path, 1, k) : k \in 1..Len(path)}

\* os.makedirs(d, exist_ok=True): "" is no directory name; a component that is
\* a regular file is in the way; else d and its missing parents are created
Makedirs(d, ds, fs) ==
    IF Len(d) = 0 THEN [exc |-> "FileNotFoundError", dirs |-> ds]
    ELSE IF \E q \in Prefixes(d) : q \in DOMAIN fs
         THEN [exc |-> "FileExistsError", dirs |-> ds]
         ELSE [exc |-> "", dirs |-> ds \cup Prefixes(d)]

SumOver(f, keys) == SumSeq([i \in 1..Len(keys) |-> f[keys[i]]])

\* lines 74-118: the header and the four metrics
HeaderBlocks(info, t) ==
    <<[kind |-> "header", generated |-> Timestamp(t)],
      [kind |-> "metrics", rows |-> info.shape[1], columns |-> info.shape[2],
       missing |-> SumOver(info.missing_values, info.columns),
       duplicates |-> info.duplicate_rows]>>

\* lines 121-126: if sum(basic_info['missing_values'].values()) > 0
WarningBlock(info) ==
    IF SumOver(info.missing_values, info.columns) > 0 THEN <<[kind |-> "warning"]>> ELSE <<>>

\* lines 129-133: if numeric_summary is not None
NumericBlock(numeric_summary) ==
    IF numeric_summary.present
    THEN <<[kind |-> "numeric_summary", table |-> numeric_summary.v]>>
    ELSE <<>>

\* lines 136-147: if categorical_summary (neither None nor empty), one block
\* per column with list(summary['top_values'].items())[:5]
CategoricalBlocks(categorical_summary) ==
    IF categorical_summary.present /\ Len(categorical_summary.v) > 0
    THEN <<[kind |-> "categorical_heading"]>>
         \o [i \in 1..Len(categorical_summary.v) |->
                LET summary == categorical_summary.v[i]
                IN  [kind |-> "categorical", col |-> summary.col,
                     unique_count |-> summary.unique_count,
                     missing_percentage |-> summary.missing_percentage,
                     top |-> SubSeq(summary.top_values, 1,
                                    Min(TopShown, Len(summary.top_values)))]]
    ELSE <<>>

\* lines 150-160: if outliers (a non-empty dict), one row per item
OutlierBlock(outliers) ==
    IF Len(outliers) > 0 THEN <<[kind |-> "outliers", rows |-> outliers]>> ELSE <<>>

\* lines 163-177: if 'correlation' in plots, then if 'distributions' in plots
ImageBlocks(plots) ==
    (IF plots.correlation.present
     THEN <<[kind |-> "correlation", img |-> plots.correlation.v]>>
     ELSE <<>>)
    \o (IF plots.distributions.present
        THEN <<[kind |-> "distributions", img |-> plots.distributions.v]>>
        ELSE <<>>)

\* a document with the outlier table ahead of the categorical part
HtmlContentOutliersFirst(info, numeric_summary, categorical_summary, outliers, plots, t) ==
    HeaderBlocks(info, t) \o WarningBlock(info) \o NumericBlock(numeric_summary)
    \o OutlierBlock(outliers) \o CategoricalBlocks(categorical_summary)
    \o ImageBlocks(plots) \o <<[kind |-> "footer"]>>

\* lines 74-183: the HTML document, as the sequence of its blocks
HtmlContent(info, numeric_summary, categorical_summary, outliers, plots, t) ==
    HeaderBlocks(info, t) \o WarningBlock(info) \o NumericBlock(numeric_summary)
    \o CategoricalBlocks(categorical_summary) \o OutlierBlock(outliers)
    \o ImageBlocks(plots) \o <<[kind |-> "footer"]>>

\* a caller that passes no output_path
NoPath == <<Part("<None>")>>

\* a report that opens its output file before the analysis runs: a failing
\* chart leaves the file created or truncated
GenerateHtmlReportOpenFirst(g, output_path, ds, fs, t, ties) ==
    LET path == IF output_path = NoPath THEN DefaultPath(t) ELSE output_path
        made == Makedirs(Dirname(path), ds, fs)
        opened == [q \in DOMAIN fs \cup {path} |-> IF q = path THEN <<>> ELSE fs[q]]
        plots == CreateVisualizations(g)
        content == HtmlContent(BasicInfo(g.analyser.df),
                               NumericalSummary(g.analyser),
                               CategoricalSummary(g.analyser, ties),
                               DetectOutliers(g.analyser),
                               plots.value, t)
        failed(e, d, f) == [result |-> Raised(e), dirs |-> d, files |-> f,
                            wrote |-> FALSE, path |-> path, content |-> <<>>]
    IN  IF made.exc # "" THEN failed(made.exc, ds, fs)
        ELSE IF path \in made.dirs THEN failed("IsADirectoryError", made.dirs, fs)
        ELSE IF plots.status = "raised" THEN failed(plots.exc, made.dirs, opened)
        ELSE [result |-> Ok(path), dirs |-> made.dirs,
              files |-> [q \in DOMAIN fs \cup {path} |->
                            IF q = path THEN content ELSE fs[q]],
              wrote |-> TRUE, path |-> path, content |-> content]

\* generate_html_report, as the outcome of one call:
\* [result, dirs, files, wrote, path, content]
GenerateHtmlReport(g, output_path, ds, fs, t, ties) ==
    LET path == IF output_path = NoPath THEN DefaultPath(t) ELSE output_path
        made == Makedirs(Dirname(path), ds, fs)
        plots == CreateVisualizations(g)
        content == HtmlContent(BasicInfo(g.analyser.df),
                               NumericalSummary(g.analyser),
                               CategoricalSummary(g.analyser, ties),
                               DetectOutliers(g.analyser),
                               plots.value, t)
        failed(e, d) == [result |-> Raised(e), dirs |-> d, files |-> fs,
                         wrote |-> FALSE, path |-> path, content |-> <<>>]
    IN  IF made.exc # "" THEN failed(made.exc, ds)
        ELSE IF plots.status = "raised" THEN failed(plots.exc, made.dirs)
        ELSE IF path \in made.dirs THEN failed("IsADirectoryError", made.dirs)
        ELSE [result |-> Ok(path), dirs |-> made.dirs,
              files |-> [q \in DOMAIN fs \cup {path} |->
                            IF q = path THEN content ELSE fs[q]],
              wrote |-> TRUE, path |-> path, content |-> content]

(***************************************************************************)
(* Inputs: the tables a caller can load and the paths a caller can pass.    *)
(***************************************************************************)
ColNames == <<"c1", "c2", "c3", "c4", "c5", "c6">>
DTypes == {"int64", "float64", "object", "datetime64", "bool"}
TieOrders == {"first_seen", "last_seen"}

\* the cells a column of an enumerated table can hold: a value, and in a
\* float64 column a null (int64 and bool columns hold no nulls: pandas stores
\* such a column with nulls as float64 or object)
CellsOf(dtype) == IF dtype = "float64" THEN {NA, Val(1)} ELSE {Val(1)}

ColumnsOf(name, r) ==
    UNION {{[name |-> name, dtype |-> d, values |-> vs] : vs \in [1..r -> CellsOf(d)]}
           : d \in DTypes}

RECURSIVE TablesOf(_, _)
TablesOf(k, r) ==
    IF k = 0 THEN {<<>>}
    ELSE {Append(t, c) : t \in TablesOf(k - 1, r), c \in ColumnsOf(ColNames[k], r)}

\* every table of up to MaxCols columns and up to MaxRows rows
EnumTables == UNION {TablesOf(k, r) : k \in 0..MaxCols, r \in 0..MaxRows}

\* every single-column float64 or object table of up to MaxSeriesLen rows
SeriesTables ==
    UNION {{<<[name |-> "c1", dtype |-> d, values |-> vs]>>
            : vs \in [1..r -> {NA, Val(1), Val(9)}]}
           : d \in {"float64", "object"}, r \in 0..MaxSeriesLen}

\* n int64 columns of two rows; GridTable(0) is the empty table pd.DataFrame()
GridTable(n) == [i \in 1..n |-> Col(ColNames[i], "int64", <<i, 2 * i>>)]

\* the tables of tests/test_analyser.py (a negative entry is a null)
TestOutliers ==
    <<Col("normal_data", "int64", <<1, 2, 3, 4, 5, 6, 7, 8, 9, 10>>),
      Col("with_outliers", "int64", <<1, 2, 3, 4, 5, 6, 7, 8, 9, 100>>)>>
TestCategorical == <<Col("category", "object", <<1, 2, 1, 3, 2, 1>>)>>
TestDuplicates ==
    <<Col("col1", "int64", <<1, 2, 3, 1, 2>>),
      Col("col2", "object", <<1, 2, 3, 1, 2>>)>>
TestMissing ==
    <<Col("with_nulls", "float64", <<1, 2, -1, 4, -1, 6>>),
      Col("complete", "int64", <<10, 20, 30, 40, 50, 60>>)>>
TestColumnTypes ==
    <<Col("numeric_int", "int64", <<1, 2, 3, 4, 5>>),
      Col("numeric_float", "float64", <<1, 2, 3, 4, 5>>),
      Col("categorical", "object", <<1, 2, 3, 4, 5>>),
      Col("datetime", "datetime64", <<1, 2, 3, 4, 5>>)>>

\* a constant column with one deviating value (IQR = 0), and a column with
\* twelve labels: 12 three times, 11 twice, 1..10 once each
ZeroIqr == <<Col("x", "float64", <<5, 5, 5, 5, 5, 5, 7, -1>>)>>
ManyLabels ==
    <<Col("city", "object", <<1, 2, 3, 4, 5, 6, 7, 8, 9, 10, 11, 12, 12, 11, 12, -1>>),
      Col("flag", "bool", <<1, 0, 1, 0, 1, 0, 1, 0, 1, 0, 1, 0, 1, 0, 1, 0>>)>>

\* numeric, categorical, boolean and datetime columns, with nulls
FullTable ==
    <<Col("price", "float64", <<3, 1, -1, 4, 1, 5, 9>>),
      Col("city", "object", <<1, 2, 3, 4, 5, 6, 6>>),
      Col("qty", "int64", <<2, 7, 1, 8, 2, 8, 1>>),
      Col("sold", "bool", <<1, 0, 1, 0, 1, 0, 0>>),
      Col("day", "datetime64", <<1, 2, 3, -1, 5, 6, 7>>)>>

Fixtures ==
    {TestOutliers, TestCategorical, TestDuplicates, TestMissing, TestColumnTypes,
     ZeroIqr, ManyLabels, FullTable}

Tables == EnumTables \cup SeriesTables \cup Fixtures \cup {GridTable(n) : n \in 0..MaxNumeric}

\* the tables reports are generated from
ReportTables == {FullTable} \cup {GridTable(n) : n \in 0..MaxNumeric}

\* the tables of the reports written to caller-chosen paths
PathTables == {FullTable, GridTable(1), GridTable(2)}

\* the output_path arguments: none, a bare file name, a file in an existing
\* directory, a file in a directory that does not exist yet
OutputPaths ==
    {NoPath,
     <<Part("report.html")>>,
     <<Part("data"), Part("report.html")>>,
     <<Part("new"), Part("sub"), Part("report.html")>>}

(***************************************************************************)
(* The state machine.                                                       *)
(***************************************************************************)
Ops == {"basic_info", "numerical_summary", "categorical_summary", "detect_outliers",
        "create_visualizations", "generate_html_report"}

Init ==
    /\ caller_df = <<>>
    /\ analyser = NoAnalyser
    /\ generator = NoGenerator
    /\ returned = [op \in Ops |-> NotCalled]
    /\ dirs = {<<Part("data")>>}
    /\ files = <<>>
    /\ now = 0
    /\ requested = NoPath
    /\ written = <<>>
    /\ tie_order \in TieOrders

\* app.py lines 15-21: a table is loaded and DataAnalyser(df) is built; the
\* objects of the previous run are dropped
DataAnalyser_init(df) ==
    /\ caller_df' = df
    /\ analyser' = NewAnalyser(df)
    /\ generator' = NoGenerator
    /\ returned' = [op \in Ops |-> NotCalled]
    /\ UNCHANGED <<dirs, files, now, requested, written, tie_order>>

Return(op, result) ==
    /\ returned' = [returned EXCEPT ![op] = result]
    /\ UNCHANGED <<caller_df, analyser, generator, dirs, files, now, requested, written,
                   tie_order>>

basic_info ==
    /\ analyser.built
    /\ Return("basic_info", Ok(BasicInfo(analyser.df)))

\* a summary that first fills the nulls of the numeric columns in place
FillNa(df, cols) ==
    [i \in 1..Len(df) |->
        IF df[i].name \in Range(cols)
        THEN [df[i] EXCEPT !.values = [k \in 1..Len(@) |-> IF @[k].na THEN Val(0) ELSE @[k]]]
        ELSE df[i]]

numerical_summary_fillna_inplace ==
    /\ analyser.built
    /\ analyser' = [analyser EXCEPT !.df = FillNa(@, analyser.numeric_cols)]
    /\ returned' = [returned EXCEPT !["numerical_summary"] = Ok(NumericalSummary(analyser'))]
    /\ UNCHANGED <<caller_df, generator, dirs, files, now, requested, written, tie_order>>

numerical_summary ==
    /\ analyser.built
    /\ Return("numerical_summary", Ok(NumericalSummary(analyser)))

\* an exception raised while the summary is computed reaches the caller
categorical_summary ==
    /\ analyser.built
    /\ LET summary == CategoricalSummary(analyser, tie_order)
       IN  Return("categorical_summary",
                  IF summary.present
                     /\ \E i \in 1..Len(summary.v) :
                            summary.v[i].missing_percentage.kind = "error"
                  THEN Raised("ZeroDivisionError")
                  ELSE Ok(summary))

detect_outliers ==
    /\ analyser.built
    /\ LET outliers == DetectOutliers(analyser)
       IN  Return("detect_outliers",
                  IF \E i \in 1..Len(outliers) : outliers[i].percentage.kind = "error"
                  THEN Raised("ZeroDivisionError")
                  ELSE Ok(outliers))

\* app.py line 84: ReportGenerator(analyser)
ReportGenerator_init ==
    /\ analyser.built
    /\ generator' = NewGenerator(analyser)
    /\ UNCHANGED <<caller_df, analyser, returned, dirs, files, now, requested, written,
                   tie_order>>

create_visualizations ==
    /\ generator.built
    /\ Return("create_visualizations", CreateVisualizations(generator))

generate_html_report(output_path) ==
    /\ generator.built
    /\ Len(written) < MaxReports
    /\ LET out == GenerateHtmlReport(generator, output_path, dirs, files, now, tie_order)
       IN  /\ returned' = [returned EXCEPT !["generate_html_report"] = out.result]
           /\ dirs' = out.dirs
           /\ files' = out.files
           /\ written' = IF out.wrote
                         THEN Append(written, [path |-> out.path, content |-> out.content,
                                               default |-> output_path = NoPath,
                                               analyser |-> generator.analyser])
                         ELSE written
    /\ requested' = output_path
    /\ UNCHANGED <<caller_df, analyser, generator, now, tie_order>>

\* time passes
Tick ==
    /\ now < MaxClock
    /\ now' = now + 1
    /\ UNCHANGED <<caller_df, analyser, generator, returned, dirs, files, requested, written,
                   tie_order>>

\* one loaded table and the analyser's queries.  (Loading another table leads
\* to a state the first load reaches, so one load per behaviour reaches every
\* state.)
Next ==
    \/ \E df \in Tables : ~analyser.built /\ DataAnalyser_init(df)
    \/ basic_info
    \/ numerical_summary
    \/ categorical_summary
    \/ detect_outliers

Spec == Init /\ [][Next]_vars

\* reports written to disk, from one table after another, while the clock runs
NextReport ==
    \/ \E df \in PathTables : DataAnalyser_init(df)
    \/ ReportGenerator_init
    \/ \E output_path \in OutputPaths : generate_html_report(output_path)
    \/ Tick

SpecReport == Init /\ [][NextReport]_vars

\* one loaded table and every operation on it, in any order
NextAll ==
    \/ \E df \in ReportTables : ~analyser.built /\ DataAnalyser_init(df)
    \/ basic_info
    \/ numerical_summary
    \/ categorical_summary
    \/ detect_outliers
    \/ ReportGenerator_init
    \/ create_visualizations
    \/ generate_html_report(NoPath)
    \/ Tick

SpecAll == Init /\ [][NextAll]_vars

(***************************************************************************)
(* The claims.                                                              *)
(***************************************************************************)
ColumnSet(df) == Range(Columns(df))

\* C1: the three classification lists are pairwise disjoint and their union is
\* exactly the table's column set, every column in exactly one list.
C1_ClassificationPartitions ==
    analyser.built =>
        /\ Range(analyser.numeric_cols) \cap Range(analyser.categorical_cols) = {}
        /\ Range(analyser.numeric_cols) \cap Range(analyser.datetime_cols) = {}
        /\ Range(analyser.categorical_cols) \cap Range(analyser.datetime_cols) = {}
        /\ Range(analyser.numeric_cols) \cup Range(analyser.categorical_cols)
              \cup Range(analyser.datetime_cols) = ColumnSet(analyser.df)
        /\ Len(analyser.numeric_cols) + Len(analyser.categorical_cols)
              + Len(analyser.datetime_cols) = NCols(analyser.df)

\* C2: create_visualizations returns normally for every table; its result has
\* 'distributions' exactly when there is a numeric column and 'correlation'
\* exactly when there are two or more.
C2_VisualizationKeys ==
    LET r == returned["create_visualizations"]
        n == Len(generator.analyser.numeric_cols)
    IN  r.status # "not called" =>
            /\ r.status = "ok"
            /\ r.value.distributions.present <=> n >= 1
            /\ r.value.correlation.present <=> n >= 2

\* C3: generate_html_report, for a caller-chosen path (a bare file name, a path
\* in an existing or in a missing directory) or the default one, makes sure the
\* parent directory exists, writes the document to that path and returns it.
\* (Stated for the tables whose charts can be drawn: one numeric column makes
\* every report fail, which is C2.)
C3_ReportWrittenToPath ==
    LET r == returned["generate_html_report"]
    IN  (r.status # "not called" /\ Len(generator.analyser.numeric_cols) # 1) =>
            /\ r.status = "ok"
            /\ IF requested = NoPath
               THEN \E t \in 0..now : r.value = DefaultPath(t)
               ELSE r.value = requested
            /\ Dirname(r.value) \in dirs
            /\ r.value \in DOMAIN files
            /\ Len(written) > 0
            /\ \E k \in 1..Len(written) :
                  written[k].path = r.value /\ files[r.value] = written[k].content

\* The k-th smallest of the non-null values x (k from 1), by counting
OrderStatistic(x, k) ==
    CHOOSE v \in Range(x) :
        /\ Cardinality({i \in 1..Len(x) : x[i] < v}) < k
        /\ Cardinality({i \in 1..Len(x) : x[i] <= v}) >= k

\* Four times the (j*25)-th percentile of the non-null values x, interpolated
\* linearly between the two order statistics around position (n-1)*j/4
Percentile4(x, j) ==
    LET h == (Len(x) - 1) * j
        lo == OrderStatistic(x, (h \div 4) + 1)
    IN  IF h % 4 = 0 THEN 4 * lo
        ELSE (4 - (h % 4)) * lo + (h % 4) * OrderStatistic(x, (h \div 4) + 2)

\* the rows of a column that lie strictly outside [Q1 - 1.5*IQR, Q3 + 1.5*IQR]
\* (all quantities times 8)
OutlierRows(values) ==
    LET x == DropNa(values)
        Q1 == Percentile4(x, 1)
        Q3 == Percentile4(x, 3)
        IQR == Q3 - Q1
    IN  IF Len(x) = 0 THEN {}
        ELSE {i \in 1..Len(values) :
                /\ ~values[i].na
                /\ \/ 8 * values[i].v < 2 * Q1 - 3 * IQR
                   \/ 8 * values[i].v > 2 * Q3 + 3 * IQR}

OutlierEntry(col) ==
    LET r == returned["detect_outliers"].value
    IN  r[CHOOSE i \in 1..Len(r) : r[i].col = col]

\* C4: for every numeric column detect_outliers reports as count the number of
\* rows whose non-null value is strictly below Q1 - 1.5*IQR or strictly above
\* Q3 + 1.5*IQR, with no special case for IQR = 0; [1..9,100] gives a count
\* above 0 and [1..10] gives 0.
C4_OutlierCount ==
    LET r == returned["detect_outliers"]
    IN  r.status # "not called" =>
            /\ r.status = "ok"
            /\ Len(r.value) = Len(analyser.numeric_cols)
            /\ \A i \in 1..Len(r.value) :
                  /\ r.value[i].col = analyser.numeric_cols[i]
                  /\ r.value[i].count
                        = Cardinality(OutlierRows(Series(analyser.df, r.value[i].col)))
            /\ analyser.df = TestOutliers =>
                  /\ OutlierEntry("with_outliers").count > 0
                  /\ OutlierEntry("normal_data").count = 0

\* C4's case: a column whose quartiles coincide (IQR = 0) and whose deviating
\* values are counted
C4_Witness ==
    LET r == returned["detect_outliers"]
    IN  /\ r.status = "ok"
        /\ \E i \in 1..Len(r.value) :
              LET values == Series(analyser.df, r.value[i].col)
              IN  /\ Len(DropNa(values)) > 0
                  /\ Percentile4(DropNa(values), 1) = Percentile4(DropNa(values), 3)
                  /\ r.value[i].count > 0
                  /\ r.value[i].count < Len(DropNa(values))

\* the steps that load a table
IsLoad == \E df \in ReportTables : DataAnalyser_init(df)

Queries == {"basic_info", "numerical_summary", "categorical_summary", "detect_outliers"}

\* C5: no call of basic_info, numerical_summary, categorical_summary,
\* detect_outliers, create_visualizations or generate_html_report changes the
\* analyser's table, its three lists or the caller's table (which the
\* analyser's copy equals), and a query called again returns what it returned
\* before.
C5_QueriesLeaveStateAlone ==
    [][IsLoad \/ (/\ analyser' = analyser
                  /\ caller_df' = caller_df
                  /\ analyser.built => analyser.df = caller_df
                  /\ generator'.built => generator'.df = analyser'.df
                  /\ \A op \in Queries :
                        returned[op].status # "not called" => returned'[op] = returned[op])]_vars

\* C5's case: every operation has been called on an analyser that keeps its table
C5_Witness ==
    /\ analyser.built /\ analyser.df = FullTable /\ caller_df = FullTable
    /\ \A op \in Ops : returned[op].status = "ok"
    /\ Len(written) = MaxReports

\* the rows equal in every column to an earlier row
RepeatedRows(df) ==
    {i \in 1..NRows(df) : \E j \in 1..(i - 1) : \A c \in 1..NCols(df) :
                              df[c].values[j] = df[c].values[i]}

NullRows(df, col) == {i \in 1..NRows(df) : Series(df, col)[i].na}

\* C6: basic_info returns shape = (rows, columns), missing_values[c] = the
\* number of null cells of column c, and duplicate_rows = the number of rows
\* identical in every column to an earlier row; the table whose rows 4 and 5
\* repeat rows 1 and 2 reports 2, the column with 2 nulls reports 2.
C6_BasicInfo ==
    LET r == returned["basic_info"]
        df == analyser.df
    IN  r.status # "not called" =>
            /\ r.status = "ok"
            /\ r.value.shape = <<NRows(df), NCols(df)>>
            /\ DOMAIN r.value.missing_values = ColumnSet(df)
            /\ \A c \in ColumnSet(df) :
                  r.value.missing_values[c] = Cardinality(NullRows(df, c))
            /\ r.value.duplicate_rows = Cardinality(RepeatedRows(df))
            /\ df = TestDuplicates => r.value.duplicate_rows = 2
            /\ df = TestMissing =>
                  /\ r.value.missing_values["with_nulls"] = 2
                  /\ r.value.missing_values["complete"] = 0

\* C6's case: a table with nulls and with a row repeated more than once
C6_Witness ==
    LET r == returned["basic_info"]
    IN  /\ r.status = "ok"
        /\ r.value.duplicate_rows >= 2
        /\ r.value.duplicate_rows < NRows(analyser.df) - 1
        /\ \E c \in ColumnSet(analyser.df) : r.value.missing_values[c] >= 2

IsNaN(x) == x.kind = "nan"

\* C7: no analyser operation raises, whatever the table: the empty table gives
\* shape (0,0), no columns, no duplicates; numerical_summary and
\* categorical_summary return None exactly when there is no numeric,
\* no categorical, column; detect_outliers returns an empty mapping when there
\* is no numeric column; undefined statistics and percentages are NaN.
C7_NoOperationRaises ==
    LET df == analyser.df
        info == returned["basic_info"]
        num == returned["numerical_summary"]
        cat == returned["categorical_summary"]
        out == returned["detect_outliers"]
    IN  /\ \A op \in Queries : returned[op].status \in {"not called", "ok"}
        /\ (info.status = "ok" /\ df = <<>>) =>
              /\ info.value.shape = <<0, 0>>
              /\ info.value.columns = <<>>
              /\ info.value.duplicate_rows = 0
        /\ num.status = "ok" =>
              /\ num.value.present <=> analyser.numeric_cols # <<>>
              /\ num.value.present =>
                    \A c \in Range(analyser.numeric_cols) :
                        LET st == num.value.v.stats[c]
                        IN  /\ st.count = NRows(df) - Cardinality(NullRows(df, c))
                            /\ st.count = 0 =>
                                  /\ IsNaN(st.mean) /\ IsNaN(st.min) /\ IsNaN(st.max)
                                  /\ IsNaN(st.q25) /\ IsNaN(st.q50) /\ IsNaN(st.q75)
                            /\ st.count > 0 => st.mean.kind = "num" /\ st.q50.kind = "num"
                            /\ st.count < 2 => IsNaN(st.std)
                            /\ st.count < 3 => IsNaN(st.skewness)
                            /\ st.count < 4 => IsNaN(st.kurtosis)
        /\ cat.status = "ok" =>
              /\ cat.value.present <=> analyser.categorical_cols # <<>>
              /\ cat.value.present =>
                    \A i \in 1..Len(cat.value.v) :
                        IF NRows(df) = 0
                        THEN IsNaN(cat.value.v[i].missing_percentage)
                        ELSE cat.value.v[i].missing_percentage.kind = "num"
        /\ out.status = "ok" =>
              /\ analyser.numeric_cols = <<>> => out.value = <<>>
              /\ \A i \in 1..Len(out.value) :
                    IF NRows(df) = 0
                    THEN IsNaN(out.value[i].percentage) /\ out.value[i].count = 0
                    ELSE out.value[i].percentage.kind = "num"

\* C7's case: every query has returned on a table with columns and no rows
C7_Witness ==
    /\ NRows(analyser.df) = 0
    /\ analyser.numeric_cols # <<>> /\ analyser.categorical_cols # <<>>
    /\ \A op \in Queries : returned[op].status = "ok"
    /\ IsNaN(returned["detect_outliers"].value[1].percentage)
    /\ IsNaN(returned["categorical_summary"].value.v[1].missing_percentage)

\* the index of the first row of a column that holds the value v
FirstRow(values, v) ==
    CHOOSE i \in 1..Len(values) :
        /\ ~values[i].na /\ values[i].v = v
        /\ \A j \in 1..(i - 1) : values[j].na \/ values[j].v # v

RowsWith(values, v) == {i \in 1..Len(values) : ~values[i].na /\ values[i].v = v}
DistinctValues(values) == {values[i].v : i \in {j \in 1..Len(values) : ~values[j].na}}

\* what C8 says of one column's summary, but for the order of equal counts
TopValuesOf(values, e) ==
    LET top == e.top_values
        shown == {top[k].value : k \in 1..Len(top)}
    IN  /\ e.unique_count = Cardinality(DistinctValues(values))
        /\ Len(top) = Min(TopN, e.unique_count)
        /\ Cardinality(shown) = Len(top)
        /\ shown \subseteq DistinctValues(values)
        /\ \A k \in 1..Len(top) : top[k].count = Cardinality(RowsWith(values, top[k].value))
        /\ \A k \in 1..(Len(top) - 1) : top[k].count >= top[k + 1].count
        /\ \A v \in DistinctValues(values) \ shown :
              \A k \in 1..Len(top) : Cardinality(RowsWith(values, v)) <= top[k].count

SectionKinds(content) ==
    LET kept == SelectSeq(content, LAMBDA b : b.kind \notin {"categorical_heading", "footer"})
    IN  [k \in 1..Len(kept) |-> kept[k].kind]

Repeat(x, n) == [k \in 1..n |-> x]

TotalMissing(df) == Cardinality({<<c, i>> \in (1..NCols(df)) \X (1..NRows(df)) : df[c].values[i].na})

\* the sections C9 lists, for a document generated from analyser a whose
\* charts are plots
ExpectedKinds(a, plots) ==
    <<"header", "metrics">>
    \o (IF TotalMissing(a.df) > 0 THEN <<"warning">> ELSE <<>>)
    \o (IF a.numeric_cols # <<>> THEN <<"numeric_summary">> ELSE <<>>)
    \o Repeat("categorical", Len(a.categorical_cols))
    \o (IF a.numeric_cols # <<>> THEN <<"outliers">> ELSE <<>>)
    \o (IF plots.correlation.present THEN <<"correlation">> ELSE <<>>)
    \o (IF plots.distributions.present THEN <<"distributions">> ELSE <<>>)

Blocks(content, kind) == SelectSeq(content, LAMBDA b : b.kind = kind)

\* C9: a written document holds, in this order and each under its condition:
\* header and the four metrics; the missing-data warning iff a value is
\* missing; the numeric summary iff a numeric column exists; one section per
\* categorical column with at most its first 5 top values; the outlier table,
\* one row per numeric column, iff a numeric column exists; the correlation
\* image iff create_visualizations produced it; the distribution image iff
\* create_visualizations produced it.
C9_DocumentSections ==
    \A w \in 1..Len(written) :
        LET a == written[w].analyser
            content == written[w].content
            plots == CreateVisualizations(NewGenerator(a))
            cats == Blocks(content, "categorical")
        IN  /\ plots.status = "ok"
            /\ SectionKinds(content) = ExpectedKinds(a, plots.value)
            /\ content[2].rows = NRows(a.df) /\ content[2].columns = NCols(a.df)
            /\ content[2].missing = TotalMissing(a.df)
            /\ content[2].duplicates = Cardinality(RepeatedRows(a.df))
            /\ \A i \in 1..Len(cats) :
                  /\ cats[i].col = a.categorical_cols[i]
                  /\ Len(cats[i].top) <= TopShown
                  /\ Len(cats[i].top)
                        = Min(TopShown, Cardinality(DistinctValues(Series(a.df, cats[i].col))))
            /\ \A b \in Range(Blocks(content, "outliers")) :
                  [k \in 1..Len(b.rows) |-> b.rows[k].col] = a.numeric_cols

\* C9's case: a document with every section, whose categorical column has more
\* than five values
C9_Witness ==
    \E w \in 1..Len(written) :
        /\ SectionKinds(written[w].content)
              = <<"header", "metrics", "warning", "numeric_summary", "categorical",
                  "outliers", "correlation", "distributions">>
        /\ \E b \in Range(written[w].content) :
              /\ b.kind = "categorical"
              /\ b.unique_count > TopShown
              /\ Len(b.top) = TopShown

\* C10: two generate_html_report calls without an explicit path, also within
\* the same second, write to distinct file names, and after both each report's
\* file exists with its own content.
C10_DefaultReportsDistinct ==
    \A i, j \in 1..Len(written) :
        (i < j /\ written[i].default /\ written[j].default) =>
            /\ written[i].path # written[j].path
            /\ written[i].path \in DOMAIN files
            /\ files[written[i].path] = written[i].content

\* a step of generate_html_report: of the call results only its own changes,
\* and the table, the analyser, the generator and the clock stay as they are
IsReportCall ==
    /\ generator.built
    /\ UNCHANGED <<caller_df, analyser, generator, now, tie_order>>
    /\ \A op \in Ops \ {"generate_html_report"} : returned'[op] = returned[op]
    /\ <<returned, dirs, files, requested, written>>' # <<returned, dirs, files, requested, written>>

\* the path a call wrote to or would have written to
TargetPaths(output_path, t) == IF output_path = NoPath THEN {DefaultPath(t)} ELSE {output_path}

\* C11: generate_html_report opens the output file only after the analysis,
\* the charts and the assembly of the document have completed: when one of
\* them fails the error reaches the caller, nothing is retried, no file is
\* created, truncated or modified, and the only effect on the file system that
\* may remain is the created parent directory.
C11_NoFileOnFailure ==
    [][(IsReportCall /\ CreateVisualizations(generator).status = "raised") =>
          LET r == returned'["generate_html_report"]
          IN  /\ r.status = "raised"
              /\ r.exc = "AttributeError" \/ Dirname(requested') = <<>>
              /\ files' = files
              /\ written' = written
              /\ dirs \subseteq dirs'
              /\ \E path \in TargetPaths(requested', now) :
                    dirs' \subseteq dirs \cup Prefixes(Dirname(path))]_vars

\* a report was written to a path in a directory the call created; then, of a
\* table with one numeric column, a report to the same path failed: the file
\* is still there with the first report's content
C11_Witness ==
    /\ returned["generate_html_report"].status = "raised"
    /\ returned["generate_html_report"].exc = "AttributeError"
    /\ Len(generator.analyser.numeric_cols) = 1
    /\ requested = <<Part("new"), Part("sub"), Part("report.html")>>
    /\ Dirname(requested) \in dirs
    /\ Len(written) = 1
    /\ written[1].path = requested
    /\ requested \in DOMAIN files
    /\ files[requested] = written[1].content
    /\ written[1].content # <<>>

====
